---- MODULE Spec2Model ----
(***************************************************************************)
(* The POST /analyze handler of backend/main.py (analyze_product): one     *)
(* request walking through validation, the six collaborators of utils,     *)
(* the aggregation of the three distributions, the representative          *)
(* sampling, the insight enrichment and the final response, with the       *)
(* handler's try/except structure.                                         *)
(***************************************************************************)
EXTENDS Integers, Sequences, FiniteSets, TLC

VARIABLES
    pc,                   \* the statement of analyze_product about to run
    product_description,  \* request.product_description
    personas,             \* output of generate_relevant_personas
    product_persona,      \* product_persona_data.get("personas", [])
    age_ranges,           \* product_persona_data.get("age_ranges", [])
    gender,               \* product_persona_data.get("gender", "Both")
    topk,                 \* output of find_top_personas
    analysis_results,     \* output of analyze_purchase_decisions (a dict)
    yes_personas,         \* the records handed to classify_yes_personas
    classified_yes,       \* output of classify_yes_personas (a list of dicts)
    would_buy_pie_counts,
    yes_pie_counts,
    age_distribution,
    selected_consumer,    \* insertion-ordered dict, as a sequence of entries
    consumer_insights,
    enrich_i,             \* position of the loop of line 171 in selected_consumer
    response,             \* what the caller gets: pending, a result or an error
    calls,                \* the collaborators invoked so far, in order
    failed,               \* the collaborator that raised, "" if none did
    insight_args,         \* the arguments of each generate_persona_insights call
    random_state,         \* the draws made so far from the module-level generator
    previous              \* the outcome of the request served before this one

vars == <<pc, product_description, personas, product_persona, age_ranges, gender,
          topk, analysis_results, yes_personas, classified_yes,
          would_buy_pie_counts, yes_pie_counts, age_distribution,
          selected_consumer, consumer_insights, enrich_i, response, calls, failed,
          insight_args, random_state, previous>>

(***************************************************************************)
(* Bounds of the model.                                                    *)
(***************************************************************************)
MaxDetails == 2      \* longest decision set a mock simulator returns
MaxClassified == 2   \* longest classification list a mock classifier returns

BoundedSeq(S, n) == UNION {[1..k -> S] : k \in 0..n}
Range(s) == {s[i] : i \in 1..Len(s)}

(***************************************************************************)
(* Python values.  A str that the handler converts (lower, strip, int) is  *)
(* a sequence of characters; None, int and str are told apart by the one   *)
(* field of the value.  Identifiers, labels and summaries, which the       *)
(* handler only compares and copies, are plain strings.  A dict is a       *)
(* function whose DOMAIN is its key set.                                   *)
(***************************************************************************)
None == [none |-> TRUE]
StrVal(cs) == [str |-> cs]
IntVal(n) == [int |-> n]
IsNone(v) == "none" \in DOMAIN v
IsStr(v) == "str" \in DOMAIN v
IsInt(v) == "int" \in DOMAIN v

EmptyDict == <<>>
\* dict.get(key, default)
Get(d, key, default) == IF key \in DOMAIN d THEN d[key] ELSE default

UpperToLower ==
    [A |-> "a", B |-> "b", C |-> "c", D |-> "d", E |-> "e", F |-> "f", G |-> "g",
     H |-> "h", I |-> "i", J |-> "j", K |-> "k", L |-> "l", M |-> "m", N |-> "n",
     O |-> "o", P |-> "p", Q |-> "q", R |-> "r", S |-> "s", T |-> "t", U |-> "u",
     V |-> "v", W |-> "w", X |-> "x", Y |-> "y", Z |-> "z"]

\* str.lower()
Lower(cs) ==
    [i \in 1..Len(cs) |-> IF cs[i] \in DOMAIN UpperToLower THEN UpperToLower[cs[i]] ELSE cs[i]]

IsSpace(c) == c \in {" ", "\t", "\n"}

RECURSIVE LStrip(_)
LStrip(cs) == IF cs # <<>> /\ IsSpace(Head(cs)) THEN LStrip(Tail(cs)) ELSE cs

RECURSIVE RStrip(_)
RStrip(cs) ==
    IF cs # <<>> /\ IsSpace(cs[Len(cs)]) THEN RStrip(SubSeq(cs, 1, Len(cs) - 1)) ELSE cs

\* str.strip()
Strip(cs) == RStrip(LStrip(cs))

\* str.startswith(prefix)
StartsWith(cs, prefix) ==
    Len(cs) >= Len(prefix) /\ SubSeq(cs, 1, Len(prefix)) = prefix

DigitChars == <<"0", "1", "2", "3", "4", "5", "6", "7", "8", "9">>
IsDigit(c) == c \in Range(DigitChars)
DigitVal(c) == (CHOOSE k \in 1..10 : DigitChars[k] = c) - 1

RECURSIVE NatToStr(_)
NatToStr(n) ==
    IF n < 10 THEN <<DigitChars[n + 1]>>
    ELSE NatToStr(n \div 10) \o <<DigitChars[(n % 10) + 1]>>

\* str(x) of an int or a str
PyStr(v) ==
    IF IsStr(v) THEN v.str
    ELSE IF IsInt(v) THEN (IF v.int < 0 THEN <<"-">> \o NatToStr(-v.int) ELSE NatToStr(v.int))
    ELSE <<"N", "o", "n", "e">>

\* int(s): optional sign, then digits, single underscores allowed between digits
Unsigned(cs) == IF cs # <<>> /\ Head(cs) \in {"+", "-"} THEN Tail(cs) ELSE cs

IsIntLiteral(cs) ==
    LET ds == Unsigned(Strip(cs)) IN
    /\ ds # <<>>
    /\ IsDigit(ds[1]) /\ IsDigit(ds[Len(ds)])
    /\ \A i \in 1..Len(ds) : IsDigit(ds[i]) \/ ds[i] = "_"
    /\ \A i \in 1..(Len(ds) - 1) : ~(ds[i] = "_" /\ ds[i + 1] = "_")

RECURSIVE DigitsValue(_, _)
DigitsValue(ds, acc) ==
    IF ds = <<>> THEN acc
    ELSE IF Head(ds) = "_" THEN DigitsValue(Tail(ds), acc)
    ELSE DigitsValue(Tail(ds), 10 * acc + DigitVal(Head(ds)))

ParseInt(cs) ==
    LET s == Strip(cs) IN
    IF s # <<>> /\ Head(s) = "-" THEN 0 - DigitsValue(Unsigned(s), 0)
    ELSE DigitsValue(Unsigned(s), 0)

(***************************************************************************)
(* Exceptions.  A message is a sequence of text fragments, so that an      *)
(* f-string is the concatenation of its parts.                             *)
(***************************************************************************)
HTTPException(status_code, detail) ==
    [type |-> "HTTPException", status_code |-> status_code, detail |-> detail]
PyException(type, msg) == [type |-> type, msg |-> msg]

\* str(e): starlette's HTTPException prints "<status_code>: <detail>"
ExcStr(e) ==
    IF e.type = "HTTPException" THEN <<ToString(e.status_code), ": ">> \o e.detail
    ELSE e.msg

\* a handler that answers with what it has when a stage fails
HandlerBestEffort(e) ==
    [kind |-> "result",
     result |-> [would_buy_pie |-> would_buy_pie_counts,
                 consumer_insights |-> consumer_insights]]

\* lines 201-203: every exception raised inside the try, an HTTPException
\* included, is caught and raised again as a 500
HandlerError(e) ==
    [kind |-> "error", status_code |-> 500,
     detail |-> <<"Internal server error: ">> \o ExcStr(e)]

Pending == [kind |-> "pending"]
NoPrevious == [kind |-> "none"]

\* a classification stage without its own except clause
ClassifyYesPersonasUnattributed(msg) == PyException("Exception", msg)

\* line 35: "not product_description"
IsMissingNone(description) == FALSE
IsMissing(description) == description = ""

\* lines 56-58, 68-70 and 77-79: the stage-local except clauses
FindTopPersonasError(msg) == HTTPException(500, <<"Error finding top personas: ">> \o msg)
AnalyzePurchaseDecisionsError(msg) ==
    HTTPException(500, <<"Error analyzing purchase decisions: ">> \o msg)
ClassifyYesPersonasError(msg) ==
    HTTPException(500, <<"Error classifying yes personas: ">> \o msg)

(***************************************************************************)
(* Lines 72-74: the yes-partition.  p["decision"] raises KeyError when the *)
(* key is absent, and so does analysis_results["details"].                 *)
(***************************************************************************)
yes == <<"y", "e", "s">>
no == <<"n", "o">>

PartitionError(results) ==
    IF "details" \notin DOMAIN results THEN <<"'details'">>
    ELSE IF \E i \in 1..Len(results.details) : "decision" \notin DOMAIN results.details[i]
         THEN <<"'decision'">>
    ELSE <<>>

YesPersonas(details) ==
    SelectSeq(details, LAMBDA p : p.decision = StrVal(yes))

(***************************************************************************)
(* Lines 81-89: the buy / no-buy tally.                                    *)
(***************************************************************************)
\* detail.get("decision", "").lower() raises AttributeError unless it is a str
TallyError(details) ==
    \E i \in 1..Len(details) : ~IsStr(Get(details[i], "decision", StrVal(<<>>)))

\* a tally that compares the decision as spelled
WouldBuyStepExact(counts, detail) ==
    LET decision == Get(detail, "decision", StrVal(<<>>)).str IN
    IF decision = yes THEN [counts EXCEPT !.yes = @ + 1]
    ELSE IF decision = no THEN [counts EXCEPT !.no = @ + 1]
    ELSE counts

WouldBuyStep(counts, detail) ==
    LET decision == Lower(Get(detail, "decision", StrVal(<<>>)).str) IN
    IF decision = yes THEN [counts EXCEPT !.yes = @ + 1]
    ELSE IF decision = no THEN [counts EXCEPT !.no = @ + 1]
    ELSE counts

RECURSIVE WouldBuyLoop(_, _)
WouldBuyLoop(counts, details) ==
    IF details = <<>> THEN counts
    ELSE WouldBuyLoop(WouldBuyStep(counts, Head(details)), Tail(details))

\* a tally that goes on from the counters it finds
WouldBuyPieAccumulating(results) ==
    IF results # EmptyDict /\ "details" \in DOMAIN results
    THEN WouldBuyLoop(IF would_buy_pie_counts = EmptyDict THEN [yes |-> 0, no |-> 0]
                      ELSE would_buy_pie_counts,
                      results.details)
    ELSE [yes |-> 0, no |-> 0]

WouldBuyPie(results) ==
    IF results # EmptyDict /\ "details" \in DOMAIN results
    THEN WouldBuyLoop([yes |-> 0, no |-> 0], results.details)
    ELSE [yes |-> 0, no |-> 0]

(***************************************************************************)
(* Lines 91-103: the archetype tally.                                      *)
(***************************************************************************)
YesPieInit(labels) == [l \in Range(labels) |-> 0]

\* a tally that opens a counter for a label it does not know
YesPieStepAnyLabel(counts, classification) ==
    LET persona_type == Get(classification, "assigned_archetype", "") IN
    (persona_type :> (Get(counts, persona_type, 0) + 1)) @@ counts

YesPieStep(counts, classification) ==
    LET persona_type == Get(classification, "assigned_archetype", "") IN
    IF persona_type \in DOMAIN counts THEN [counts EXCEPT ![persona_type] = @ + 1]
    ELSE counts

RECURSIVE YesPieLoop(_, _)
YesPieLoop(counts, classified) ==
    IF classified = <<>> THEN counts
    ELSE YesPieLoop(YesPieStep(counts, Head(classified)), Tail(classified))

\* a tally that never runs its loop
YesPieUncounted(labels, classified) == YesPieInit(labels)

YesPie(labels, classified) == YesPieLoop(YesPieInit(labels), classified)

(***************************************************************************)
(* Lines 105-136: the age buckets.                                         *)
(***************************************************************************)
AgeLabels == {"18-29", "30-49", "50-64", "65+"}
Label1829 == <<"1", "8", "-", "2", "9">>
Label3049 == <<"3", "0", "-", "4", "9">>
Label5064 == <<"5", "0", "-", "6", "4">>
NoBucket == "none"

\* buckets whose upper ends are exclusive
AgeBucketExclusive(detail) ==
    LET age == Get(detail, "age", None) IN
    IF IsNone(age) THEN NoBucket
    ELSE LET age_str == Strip(PyStr(age)) IN
         IF age_str = Label1829 THEN "18-29"
         ELSE IF age_str = Label3049 THEN "30-49"
         ELSE IF age_str = Label5064 THEN "50-64"
         ELSE IF age_str = <<"6", "5">> \/ StartsWith(age_str, <<"6", "5">>) THEN "65+"
         ELSE IF ~IsIntLiteral(age_str) THEN NoBucket
         ELSE LET age_val == ParseInt(age_str) IN
              IF 18 <= age_val /\ age_val < 29 THEN "18-29"
              ELSE IF 30 <= age_val /\ age_val < 49 THEN "30-49"
              ELSE IF 50 <= age_val /\ age_val < 64 THEN "50-64"
              ELSE IF age_val >= 65 THEN "65+"
              ELSE NoBucket

\* the bucket one record increments, NoBucket if it increments none
AgeBucket(detail) ==
    LET age == Get(detail, "age", None) IN
    IF IsNone(age) THEN NoBucket
    ELSE LET age_str == Strip(PyStr(age)) IN
         IF age_str = Label1829 THEN "18-29"
         ELSE IF age_str = Label3049 THEN "30-49"
         ELSE IF age_str = Label5064 THEN "50-64"
         ELSE IF age_str = <<"6", "5">> \/ StartsWith(age_str, <<"6", "5">>) THEN "65+"
         ELSE IF ~IsIntLiteral(age_str) THEN NoBucket
         ELSE LET age_val == ParseInt(age_str) IN
              IF 18 <= age_val /\ age_val <= 29 THEN "18-29"
              ELSE IF 30 <= age_val /\ age_val <= 49 THEN "30-49"
              ELSE IF 50 <= age_val /\ age_val <= 64 THEN "50-64"
              ELSE IF age_val >= 65 THEN "65+"
              ELSE NoBucket

RECURSIVE AgeLoop(_, _)
AgeLoop(dist, details) ==
    IF details = <<>> THEN dist
    ELSE LET b == AgeBucket(Head(details)) IN
         AgeLoop(IF b = NoBucket THEN dist ELSE [dist EXCEPT ![b] = @ + 1], Tail(details))

AgeDistribution(results) ==
    IF results # EmptyDict /\ "details" \in DOMAIN results
    THEN AgeLoop([l \in AgeLabels |-> 0], results.details)
    ELSE [l \in AgeLabels |-> 0]

(***************************************************************************)
(* Lines 138-165: the representative sampler.                              *)
(***************************************************************************)
\* lines 143-150: personas_by_type, an insertion-ordered dict of lists
RECURSIVE GroupLoop(_, _)
GroupLoop(groups, classified) ==
    IF classified = <<>> THEN groups
    ELSE LET persona_type == Get(Head(classified), "assigned_archetype", "")
             persona_id == Get(Head(classified), "persona_id", "")
             at == {g \in 1..Len(groups) : groups[g].persona_type = persona_type}
         IN  IF at = {}
             THEN GroupLoop(Append(groups, [persona_type |-> persona_type,
                                            persona_ids |-> <<persona_id>>]),
                            Tail(classified))
             ELSE GroupLoop([g \in 1..Len(groups) |->
                                IF g \in at
                                THEN [groups[g] EXCEPT !.persona_ids = Append(@, persona_id)]
                                ELSE groups[g]],
                            Tail(classified))

\* a grouping that puts every classified id in every group
PersonasByTypeUngrouped(classified) ==
    LET groups == GroupLoop(<<>>, classified) IN
    [g \in 1..Len(groups) |->
        [groups[g] EXCEPT !.persona_ids =
            [i \in 1..Len(classified) |-> Get(classified[i], "persona_id", "")]]]

PersonasByType(classified) == GroupLoop(<<>>, classified)

\* a lookup that falls back on the first record
FindDetailOrFirst(details, selected_id) ==
    LET hits == {i \in 1..Len(details) :
                    "persona_id" \in DOMAIN details[i] /\ details[i].persona_id = selected_id}
    IN  IF hits = {} THEN (IF details = <<>> THEN 0 ELSE 1)
        ELSE CHOOSE i \in hits : \A j \in hits : i <= j

\* lines 159-165: the first record with the selected id, 0 if there is none
FindDetail(details, selected_id) ==
    LET hits == {i \in 1..Len(details) :
                    "persona_id" \in DOMAIN details[i] /\ details[i].persona_id = selected_id}
    IN  IF hits = {} THEN 0 ELSE CHOOSE i \in hits : \A j \in hits : i <= j

\* lines 153-165 with random.choice returning persona_ids[choice[g]] for group g
RECURSIVE SelectLoop(_, _, _, _)
SelectLoop(selected, groups, g, in) ==
    IF g > Len(groups) THEN selected
    ELSE LET selected_id == groups[g].persona_ids[in.choice[g]]
             d == FindDetail(in.details, selected_id)
         IN  SelectLoop(IF d = 0 THEN selected
                        ELSE Append(selected,
                                    [persona_type |-> groups[g].persona_type,
                                     persona_id |-> selected_id,
                                     persona_summary |->
                                         Get(in.details[d], "persona_summary", "")]),
                        groups, g + 1, in)

\* a sampler that walks the declared archetypes instead of the groups
SelectedConsumerPerLabel(results, classified, choice) ==
    IF classified # <<>> /\ results # EmptyDict /\ "details" \in DOMAIN results
    THEN [k \in 1..Len(product_persona) |->
            [persona_type |-> product_persona[k],
             persona_id |-> Get(classified[1], "persona_id", ""),
             persona_summary |-> "summary"]]
    ELSE <<>>

SelectedConsumer(results, classified, choice) ==
    IF classified # <<>> /\ results # EmptyDict /\ "details" \in DOMAIN results
    THEN SelectLoop(<<>>, PersonasByType(classified), 1,
                    [details |-> results.details, choice |-> choice])
    ELSE <<>>

\* the results random.choice can give for each group of personas_by_type
Choices(classified) ==
    LET groups == PersonasByType(classified) IN
    {c \in [1..Len(groups) -> 1..Len(classified)] :
        \A g \in 1..Len(groups) : c[g] <= Len(groups[g].persona_ids)}

(***************************************************************************)
(* What the mocked collaborators may return.                               *)
(***************************************************************************)
Descriptions == {"", "eco-friendly water bottle"}
Causes == {"timeout"}                 \* str(e) of a collaborator's exception
PersonaSeeds == <<"seed">>
TopPersonas == <<"stored persona">>
Insights == "insights"

\* generate_product_personas: a full payload, or a dict without the three keys
ArchetypeLists == {<<>>, <<"A">>, <<"A", "B">>}
ProductPersonaOutputs ==
    {[personas |-> l, age_ranges |-> <<"18-29", "30-49">>, gender |-> "Female"] :
        l \in ArchetypeLists} \cup {EmptyDict}

\* each stored persona has one summary; the one of p2 is empty
PersonaSummary == [p1 |-> "summary of p1", p2 |-> ""]

DetailRecords(ids, decisions, ages) ==
    {[persona_id |-> i, decision |-> d, age |-> a, persona_summary |-> PersonaSummary[i]] :
        i \in ids, d \in decisions, a \in ages}

\* analyze_purchase_decisions: {"details": [...]}, or a dict without the key
AnalysisOutputs(records) ==
    {[details |-> ds] : ds \in BoundedSeq(records, MaxDetails)} \cup {EmptyDict}

ClassificationOutputs(records) == BoundedSeq(records, MaxClassified)

\* the mocks of the orchestration and sampling checks; the last record and the
\* last classification lack the keys the handler reads with a default
MainDetails ==
    DetailRecords({"p1", "p2"}, {StrVal(yes), StrVal(no)}, {IntVal(25)})
        \cup {[persona_id |-> "p1", decision |-> StrVal(yes)]}
MainClassifications ==
    {[persona_id |-> i, assigned_archetype |-> a] : i \in {"p1", "p2"}, a \in {"A", "B"}}
        \cup {[persona_id |-> "p1"], [assigned_archetype |-> "B"]}

\* the mocks of the decision checks: every spelling and shape of the decision field
Decisions ==
    {StrVal(yes), StrVal(<<"Y", "e", "s">>), StrVal(<<"Y", "E", "S">>),
     StrVal(no), StrVal(<<"N", "o">>), StrVal(<<"m", "a", "y", "b", "e">>),
     StrVal(<<>>), None}
DecisionDetails ==
    DetailRecords({"p1"}, Decisions, {IntVal(25)})
        \cup {[persona_id |-> "p1", age |-> IntVal(25), persona_summary |-> "summary of p1"]}
FewClassifications == {[persona_id |-> "p1", assigned_archetype |-> "A"]}

\* the mocks of the age checks: labels, numbers, numeric text and junk
Ages ==
    {None, IntVal(17), IntVal(18), IntVal(29), IntVal(30), IntVal(49), IntVal(50),
     IntVal(64), IntVal(65), IntVal(70), IntVal(0 - 30),
     StrVal(Label1829), StrVal(Label3049), StrVal(Label5064),
     StrVal(<<"6", "5", "+">>), StrVal(<<"6", "5", " ", "y", "e", "a", "r", "s">>),
     StrVal(<<" ", "3", "0", "-", "4", "9", " ">>),
     StrVal(<<"2", "5">>), StrVal(<<"2", "5", ".", "0">>), StrVal(<<"+", "4", "0">>), StrVal(<<"5", "_", "5">>),
     StrVal(<<"6">>), StrVal(<<"1", "8", "-", "3", "0">>),
     StrVal(<<"u", "n", "k", "n", "o", "w", "n">>), StrVal(<<>>)}
AgeDetails ==
    DetailRecords({"p1"}, {StrVal(yes)}, Ages)
        \cup {[persona_id |-> "p1", decision |-> StrVal(yes), persona_summary |-> "summary of p1"]}

(***************************************************************************)
(* analyze_product, statement by statement.                                *)
(***************************************************************************)
Init ==
    /\ pc = "validate"
    /\ product_description \in Descriptions
    /\ personas = <<>>
    /\ product_persona = <<>>
    /\ age_ranges = <<>>
    /\ gender = ""
    /\ topk = <<>>
    /\ analysis_results = EmptyDict
    /\ yes_personas = <<>>
    /\ classified_yes = <<>>
    /\ would_buy_pie_counts = EmptyDict
    /\ yes_pie_counts = EmptyDict
    /\ age_distribution = EmptyDict
    /\ selected_consumer = <<>>
    /\ consumer_insights = EmptyDict
    /\ enrich_i = 0
    /\ response = Pending
    /\ calls = <<>>
    /\ failed = ""
    /\ insight_args = <<>>
    /\ random_state = <<>>
    /\ previous = NoPrevious

\* lines 41, 45 and 175: what propagates out of a collaborator that raises, with
\* no except clause of its own
CollaboratorErrorAttributed(cause) == ClassifyYesPersonasError(<<cause>>)
CollaboratorError(cause) == PyException("Exception", <<cause>>)

\* a handler that runs the failed statement again
RaiseAndRetry(e) ==
    /\ response' = Pending
    /\ pc' = pc

\* an exception e leaves the try block: the except clause of line 201 ends the request
Raise(e) ==
    /\ response' = HandlerError(e)
    /\ pc' = "done"

\* lines 33-36
Validate ==
    /\ pc = "validate"
    /\ IF IsMissing(product_description)
       THEN Raise(HTTPException(400, <<"Missing 'product_description' in request body">>))
       ELSE pc' = "generate_relevant_personas" /\ UNCHANGED response
    /\ UNCHANGED <<insight_args, random_state, previous>>
    /\ UNCHANGED <<product_description, personas, product_persona, age_ranges, gender,
                   topk, analysis_results, yes_personas, classified_yes,
                   would_buy_pie_counts, yes_pie_counts, age_distribution,
                   selected_consumer, consumer_insights, enrich_i, calls, failed>>

\* line 41
GenerateRelevantPersonas ==
    /\ pc = "generate_relevant_personas"
    /\ calls' = Append(calls, "generate_relevant_personas")
    /\ \/ /\ personas' = PersonaSeeds
          /\ pc' = "generate_product_personas"
          /\ UNCHANGED <<response, failed>>
       \/ \E cause \in Causes :
             /\ failed' = "generate_relevant_personas"
             /\ Raise(CollaboratorError(cause))
             /\ UNCHANGED personas
    /\ UNCHANGED <<insight_args, random_state, previous>>
    /\ UNCHANGED <<product_description, product_persona, age_ranges, gender,
                   topk, analysis_results, yes_personas, classified_yes,
                   would_buy_pie_counts, yes_pie_counts, age_distribution,
                   selected_consumer, consumer_insights, enrich_i>>

\* lines 45-48
GenerateProductPersonas(outputs) ==
    /\ pc = "generate_product_personas"
    /\ calls' = Append(calls, "generate_product_personas")
    /\ \/ \E product_persona_data \in outputs :
             /\ product_persona' = Get(product_persona_data, "personas", <<>>)
             /\ age_ranges' = Get(product_persona_data, "age_ranges", <<>>)
             /\ gender' = Get(product_persona_data, "gender", "Both")
             /\ pc' = "find_top_personas"
             /\ UNCHANGED <<response, failed>>
       \/ \E cause \in Causes :
             /\ failed' = "generate_product_personas"
             /\ Raise(CollaboratorError(cause))
             /\ UNCHANGED <<product_persona, age_ranges, gender>>
    /\ UNCHANGED <<insight_args, random_state, previous>>
    /\ UNCHANGED <<product_description, personas,
                   topk, analysis_results, yes_personas, classified_yes,
                   would_buy_pie_counts, yes_pie_counts, age_distribution,
                   selected_consumer, consumer_insights, enrich_i>>

\* lines 53-58
FindTopPersonas ==
    /\ pc = "find_top_personas"
    /\ calls' = Append(calls, "find_top_personas")
    /\ \/ /\ topk' = TopPersonas
          /\ pc' = "analyze_purchase_decisions"
          /\ UNCHANGED <<response, failed>>
       \/ \E cause \in Causes :
             /\ failed' = "find_top_personas"
             /\ Raise(FindTopPersonasError(<<cause>>))
             /\ UNCHANGED topk
    /\ UNCHANGED <<insight_args, random_state, previous>>
    /\ UNCHANGED <<product_description, personas, product_persona, age_ranges, gender,
                   analysis_results, yes_personas, classified_yes,
                   would_buy_pie_counts, yes_pie_counts, age_distribution,
                   selected_consumer, consumer_insights, enrich_i>>

\* lines 61-70
AnalyzePurchaseDecisions(records) ==
    /\ pc = "analyze_purchase_decisions"
    /\ calls' = Append(calls, "analyze_purchase_decisions")
    /\ \/ \E out \in AnalysisOutputs(records) :
             /\ analysis_results' = out
             /\ pc' = "classify_yes_personas"
             /\ UNCHANGED <<response, failed>>
       \/ \E cause \in Causes :
             /\ failed' = "analyze_purchase_decisions"
             /\ Raise(AnalyzePurchaseDecisionsError(<<cause>>))
             /\ UNCHANGED analysis_results
    /\ UNCHANGED <<insight_args, random_state, previous>>
    /\ UNCHANGED <<product_description, personas, product_persona, age_ranges, gender,
                   topk, yes_personas, classified_yes,
                   would_buy_pie_counts, yes_pie_counts, age_distribution,
                   selected_consumer, consumer_insights, enrich_i>>

\* lines 73-79: the comprehension of line 74 runs inside the try of the stage, and
\* the classifier is called only if it raised nothing
ClassifyYesPersonas(records) ==
    /\ pc = "classify_yes_personas"
    /\ IF PartitionError(analysis_results) # <<>>
       THEN /\ Raise(ClassifyYesPersonasError(PartitionError(analysis_results)))
            /\ UNCHANGED <<yes_personas, classified_yes, calls, failed>>
       ELSE /\ yes_personas' = YesPersonas(analysis_results.details)
            /\ calls' = Append(calls, "classify_yes_personas")
            /\ \/ \E out \in ClassificationOutputs(records) :
                     /\ classified_yes' = out
                     /\ pc' = "aggregate"
                     /\ UNCHANGED <<response, failed>>
               \/ \E cause \in Causes :
                     /\ failed' = "classify_yes_personas"
                     /\ Raise(ClassifyYesPersonasError(<<cause>>))
                     /\ UNCHANGED classified_yes
    /\ UNCHANGED <<insight_args, random_state, previous>>
    /\ UNCHANGED <<product_description, personas, product_persona, age_ranges, gender,
                   topk, analysis_results,
                   would_buy_pie_counts, yes_pie_counts, age_distribution,
                   selected_consumer, consumer_insights, enrich_i>>

\* lines 81-136: the three distributions
Aggregate ==
    /\ pc = "aggregate"
    /\ IF TallyError(analysis_results.details)
       THEN /\ Raise(PyException("AttributeError",
                        <<"'NoneType' object has no attribute 'lower'">>))
            /\ UNCHANGED <<would_buy_pie_counts, yes_pie_counts, age_distribution>>
       ELSE /\ would_buy_pie_counts' = WouldBuyPie(analysis_results)
            /\ yes_pie_counts' = YesPie(product_persona, classified_yes)
            /\ age_distribution' = AgeDistribution(analysis_results)
            /\ pc' = "sample"
            /\ UNCHANGED response
    /\ UNCHANGED <<insight_args, random_state, previous>>
    /\ UNCHANGED <<product_description, personas, product_persona, age_ranges, gender,
                   topk, analysis_results, yes_personas, classified_yes,
                   selected_consumer, consumer_insights, enrich_i, calls, failed>>

\* lines 138-169
Sample ==
    /\ pc = "sample"
    /\ \E choice \in Choices(classified_yes) :
          /\ selected_consumer' = SelectedConsumer(analysis_results, classified_yes, choice)
          /\ random_state' = random_state \o choice
    /\ consumer_insights' = EmptyDict
    /\ enrich_i' = 1
    /\ pc' = "enrich"
    /\ UNCHANGED <<insight_args, previous>>
    /\ UNCHANGED <<product_description, personas, product_persona, age_ranges, gender,
                   topk, analysis_results, yes_personas, classified_yes,
                   would_buy_pie_counts, yes_pie_counts, age_distribution,
                   response, calls, failed>>

\* an enricher that asks for insights whatever the summary is
NeedsInsightAlways(consumer_data) == TRUE

\* lines 172-173: "if persona_summary"
NeedsInsight(consumer_data) == consumer_data.persona_summary # ""

\* lines 171-183: one iteration of the loop over selected_consumer
Enrich ==
    /\ pc = "enrich"
    /\ enrich_i <= Len(selected_consumer)
    /\ LET consumer_data == selected_consumer[enrich_i] IN
       IF ~NeedsInsight(consumer_data)
       THEN /\ enrich_i' = enrich_i + 1
            /\ UNCHANGED <<consumer_insights, response, calls, failed, pc, insight_args>>
       ELSE /\ calls' = Append(calls, "generate_persona_insights")
            /\ insight_args' = Append(insight_args,
                    [product_description |-> product_description,
                     product_persona_name |-> consumer_data.persona_type,
                     persona_summary |-> consumer_data.persona_summary])
            /\ \/ /\ consumer_insights' =
                        (consumer_data.persona_type :>
                            [persona_id |-> consumer_data.persona_id, insights |-> Insights])
                        @@ consumer_insights
                  /\ enrich_i' = enrich_i + 1
                  /\ UNCHANGED <<response, failed, pc>>
               \/ \E cause \in Causes :
                     /\ failed' = "generate_persona_insights"
                     /\ Raise(CollaboratorError(cause))
                     /\ UNCHANGED <<consumer_insights, enrich_i>>
    /\ UNCHANGED <<random_state, previous>>
    /\ UNCHANGED <<product_description, personas, product_persona, age_ranges, gender,
                   topk, analysis_results, yes_personas, classified_yes,
                   would_buy_pie_counts, yes_pie_counts, age_distribution,
                   selected_consumer>>

\* lines 188-199
Assemble ==
    /\ pc = "enrich"
    /\ enrich_i > Len(selected_consumer)
    /\ response' =
          [kind |-> "result",
           result |-> [would_buy_pie |-> would_buy_pie_counts,
                       yes_pie |-> yes_pie_counts,
                       age_distribution |-> age_distribution,
                       consumer_insights |-> consumer_insights,
                       demographics |-> [target_age_ranges |-> age_ranges,
                                         target_gender |-> gender]]]
    /\ pc' = "done"
    /\ UNCHANGED <<insight_args, random_state, previous>>
    /\ UNCHANGED <<product_description, personas, product_persona, age_ranges, gender,
                   topk, analysis_results, yes_personas, classified_yes,
                   would_buy_pie_counts, yes_pie_counts, age_distribution,
                   selected_consumer, consumer_insights, enrich_i, calls, failed>>

Next ==
    \/ Validate
    \/ GenerateRelevantPersonas
    \/ GenerateProductPersonas(ProductPersonaOutputs)
    \/ FindTopPersonas
    \/ AnalyzePurchaseDecisions(MainDetails)
    \/ ClassifyYesPersonas(MainClassifications)
    \/ Aggregate
    \/ Sample
    \/ Enrich
    \/ Assemble

Spec == Init /\ [][Next]_vars

\* the same handler against a simulator that varies the decision field
NextDecision ==
    \/ Validate
    \/ GenerateRelevantPersonas
    \/ GenerateProductPersonas(ProductPersonaOutputs)
    \/ FindTopPersonas
    \/ AnalyzePurchaseDecisions(DecisionDetails)
    \/ ClassifyYesPersonas(FewClassifications)
    \/ Aggregate
    \/ Sample
    \/ Enrich
    \/ Assemble

SpecDecision == Init /\ [][NextDecision]_vars

\* the same handler against a simulator that varies the age field
NextAge ==
    \/ Validate
    \/ GenerateRelevantPersonas
    \/ GenerateProductPersonas(ProductPersonaOutputs)
    \/ FindTopPersonas
    \/ AnalyzePurchaseDecisions(AgeDetails)
    \/ ClassifyYesPersonas(FewClassifications)
    \/ Aggregate
    \/ Sample
    \/ Enrich
    \/ Assemble

SpecAge == Init /\ [][NextAge]_vars

\* lines 29-30: after a request has been answered, the same process serves another
\* POST /analyze with the same description, and every collaborator returns to it
\* what it returned to the first: the second request stands before line 81 with the
\* same product_persona, analysis_results and classified_yes.  The module-level
\* generator of random.choice is where the first request left it.
SecondRequest ==
    /\ pc = "done"
    /\ response.kind = "result"
    /\ previous = NoPrevious
    /\ previous' = [kind |-> "served", response |-> response, draws |-> random_state]
    /\ response' = Pending
    /\ calls' = SubSeq(calls, 1, 5)
    /\ insight_args' = <<>>
    /\ pc' = "aggregate"
    /\ UNCHANGED <<product_description, personas, product_persona, age_ranges, gender,
                   topk, analysis_results, yes_personas, classified_yes,
                   would_buy_pie_counts, yes_pie_counts, age_distribution,
                   selected_consumer, consumer_insights, enrich_i, failed, random_state>>

NextTwoRequests ==
    \/ Next
    \/ SecondRequest

SpecTwoRequests == Init /\ [][NextTwoRequests]_vars

(***************************************************************************)
(* Properties.                                                             *)
(***************************************************************************)
Done == pc = "done"
Succeeded == pc = "done" /\ response.kind = "result"
ArchetypeOf(c) == Get(c, "assigned_archetype", "")   \* a missing archetype reads as ""
PersonaIdOf(c) == Get(c, "persona_id", "")
IsolatedStages == {"find_top_personas", "analyze_purchase_decisions", "classify_yes_personas"}
StageText ==
    [find_top_personas |-> "Error finding top personas: ",
     analyze_purchase_decisions |-> "Error analyzing purchase decisions: ",
     classify_yes_personas |-> "Error classifying yes personas: "]
ResponseKeys ==
    {"would_buy_pie", "yes_pie", "age_distribution", "consumer_insights", "demographics"}

\* C1: a request with an empty product_description ends with the 400
\* validation error and not with a 500.
C1_EmptyDescriptionIs400 ==
    (Done /\ product_description = "") =>
        (response.kind = "error" /\ response.status_code = 400)

\* C2: when one of the three isolated stages fails, the request ends with an
\* error whose detail carries the text of that stage and of no other stage,
\* differs from the generic internal error, and no result is returned; the
\* failure of any other collaborator carries the text of none of the three.
C2_StageFailureAttributed ==
    (Done /\ failed # "") =>
        /\ response.kind = "error"
        /\ "result" \notin DOMAIN response
        /\ \A s \in IsolatedStages :
              (StageText[s] \in Range(response.detail)) <=> (s = failed)
        /\ failed \in IsolatedStages =>
              \A c \in Causes : response.detail # <<"Internal server error: ", c>>

C2_Witness ==
    Done /\ failed = "analyze_purchase_decisions" /\ response.kind = "error"

\* C3: a request ends either with a result holding all five keys and an insight
\* for every representative with a summary, or with an error and no result;
\* nothing is returned before the end, and once any collaborator has failed,
\* the k-th insight call included, the request has ended with an error.
C3_CompleteOrError ==
    /\ ~Done => response = Pending
    /\ Done =>
          \/ /\ response.kind = "result"
             /\ failed = ""
             /\ DOMAIN response.result = ResponseKeys
             /\ DOMAIN response.result.consumer_insights =
                   {selected_consumer[k].persona_type : k \in
                       {j \in 1..Len(selected_consumer) :
                           selected_consumer[j].persona_summary # ""}}
          \/ /\ response.kind = "error"
             /\ "result" \notin DOMAIN response
    /\ failed # "" => (Done /\ response.kind = "error")

C3_Witness ==
    /\ Done
    /\ failed = "generate_persona_insights"
    /\ consumer_insights # EmptyDict
    /\ response.kind = "error"

\* C4: for a request with an empty product_description no collaborator is
\* ever invoked.
C4_NoCallOnEmptyDescription ==
    product_description = "" => calls = <<>>

C4_Witness ==
    Done /\ product_description = "" /\ response.kind = "error"

\* C5: in a request that succeeds, would_buy_pie.yes is the number of records
\* whose lowercased decision is "yes", would_buy_pie.no the number whose
\* lowercased decision is "no", their sum is at most len(D), and it equals
\* len(D) exactly when every record has one of the two.
C5_WouldBuyPieCounts ==
    Succeeded =>
        LET D == analysis_results.details
            pie == response.result.would_buy_pie
            Low(i) == IF IsStr(Get(D[i], "decision", None))
                      THEN Lower(D[i].decision.str) ELSE <<"?">>
            Y == {i \in 1..Len(D) : Low(i) = yes}
            N == {i \in 1..Len(D) : Low(i) = no}
        IN  /\ pie.yes = Cardinality(Y)
            /\ pie.no = Cardinality(N)
            /\ pie.yes + pie.no <= Len(D)
            /\ (pie.yes + pie.no = Len(D)) <=> (\A i \in 1..Len(D) : Low(i) \in {yes, no})

C5_Witness ==
    /\ Succeeded
    /\ \E i \in 1..Len(analysis_results.details) :
          analysis_results.details[i].decision = StrVal(<<"Y", "E", "S">>)
    /\ \E i \in 1..Len(analysis_results.details) :
          analysis_results.details[i].decision = StrVal(<<"m", "a", "y", "b", "e">>)

\* C6: in a successful response the keys of yes_pie are exactly the archetype
\* labels of the product-persona generator, each value is the number of
\* classifications with that archetype, and a classification with any other
\* archetype counts nowhere.
C6_YesPieKeysAndCounts ==
    Succeeded =>
        LET pie == response.result.yes_pie
        IN  /\ DOMAIN pie = Range(product_persona)
            /\ \A l \in DOMAIN pie :
                  pie[l] = Cardinality({i \in 1..Len(classified_yes) :
                              "assigned_archetype" \in DOMAIN classified_yes[i]
                              /\ classified_yes[i].assigned_archetype = l})

C6_Witness ==
    /\ Succeeded
    /\ product_persona = <<"A">>
    /\ Len(classified_yes) = 2
    /\ ArchetypeOf(classified_yes[1]) = "B"
    /\ ArchetypeOf(classified_yes[2]) = "A"
    /\ response.result.yes_pie["A"] = 1

\* C7: the bucket of an age, as the two-tier function states it.
ClaimBucket(age) ==
    IF IsNone(age) THEN NoBucket
    ELSE LET t == Strip(PyStr(age)) IN
         CASE t = Label1829 -> "18-29"
           [] t = Label3049 -> "30-49"
           [] t = Label5064 -> "50-64"
           [] OTHER ->
                IF StartsWith(t, <<"6", "5">>) THEN "65+"
                ELSE IF IsIntLiteral(t)
                     THEN LET n == ParseInt(t) IN
                          CASE n \in 18..29 -> "18-29"
                            [] n \in 30..49 -> "30-49"
                            [] n \in 50..64 -> "50-64"
                            [] n >= 65 -> "65+"
                            [] OTHER -> NoBucket
                     ELSE NoBucket

\* the examples of the age bucketing, input and expected bucket
AgeExamples ==
    {<<StrVal(Label1829), "18-29">>, <<IntVal(29), "18-29">>, <<IntVal(30), "30-49">>,
     <<IntVal(64), "50-64">>, <<IntVal(65), "65+">>,
     <<StrVal(<<"6", "5", " ", "y", "e", "a", "r", "s">>), "65+">>,
     <<IntVal(17), NoBucket>>, <<StrVal(<<"u", "n", "k", "n", "o", "w", "n">>), NoBucket>>,
     <<None, NoBucket>>}

\* C7: in a successful response each age bucket counts the records the
\* two-tier function sends to it (label match, then "65" prefix, then integer
\* ranges, else nothing), a record with one of the listed example ages is
\* counted in its listed bucket, the four counts sum to at most len(D), and the
\* keys are exactly the four labels.
C7_AgeBuckets ==
    Succeeded =>
        LET D == analysis_results.details
            dist == response.result.age_distribution
            AgeAt(i) == Get(D[i], "age", None)
            In(b) == {i \in 1..Len(D) : ClaimBucket(AgeAt(i)) = b}
        IN  /\ DOMAIN dist = AgeLabels
            /\ \A b \in AgeLabels : dist[b] = Cardinality(In(b))
            /\ dist["18-29"] + dist["30-49"] + dist["50-64"] + dist["65+"] <= Len(D)
            /\ \A ex \in AgeExamples :
                  (Len(D) = 1 /\ AgeAt(1) = ex[1]) =>
                      \A b \in AgeLabels : dist[b] = (IF b = ex[2] THEN 1 ELSE 0)

C7_Witness ==
    /\ Succeeded
    /\ Len(analysis_results.details) = 2
    /\ Get(analysis_results.details[1], "age", None) = IntVal(29)
    /\ Get(analysis_results.details[2], "age", None) = IntVal(17)
    /\ response.result.age_distribution["18-29"] = 1

\* C8: with every collaborator succeeding, a decision set whose records have a
\* missing, null or unrecognized decision still yields a result.
C8_MalformedDecisionTolerated ==
    (Done /\ product_description # "" /\ failed = ""
          /\ "details" \in DOMAIN analysis_results) =>
        response.kind = "result"

\* C9: in a successful response every key of consumer_insights is the
\* archetype of at least one classification of the request, and each key was
\* written by exactly one insight call.
C9_InsightKeysAreClassified ==
    Succeeded =>
        LET insights == response.result.consumer_insights IN
        /\ \A k \in DOMAIN insights :
              \E i \in 1..Len(classified_yes) : ArchetypeOf(classified_yes[i]) = k
        /\ Cardinality(DOMAIN insights) =
              Cardinality({j \in 1..Len(calls) : calls[j] = "generate_persona_insights"})

C9_Witness ==
    /\ Succeeded
    /\ DOMAIN response.result.consumer_insights = {"A", "B"}

\* every classification names the persona of some decision record
AllClassifiedKnown ==
    \A i \in 1..Len(classified_yes) :
        \E j \in 1..Len(analysis_results.details) :
            /\ "persona_id" \in DOMAIN analysis_results.details[j]
            /\ analysis_results.details[j].persona_id = PersonaIdOf(classified_yes[i])

\* C10: once the sampler has run on classifications that all name a decision
\* record, there is exactly one representative for each archetype with a
\* classification, none for any other, and its persona_id is one of the ids
\* classified into that archetype, whatever the random choice was.
C10_OneRepresentativePerArchetype ==
    (pc = "enrich" /\ AllClassifiedKnown) =>
        LET Types == {ArchetypeOf(classified_yes[i]) : i \in 1..Len(classified_yes)}
            Members(t) == {PersonaIdOf(classified_yes[i]) :
                              i \in {j \in 1..Len(classified_yes) :
                                        ArchetypeOf(classified_yes[j]) = t}}
        IN  /\ {selected_consumer[k].persona_type : k \in 1..Len(selected_consumer)} = Types
            /\ Len(selected_consumer) = Cardinality(Types)
            /\ \A k \in 1..Len(selected_consumer) :
                  selected_consumer[k].persona_id \in Members(selected_consumer[k].persona_type)

C10_Witness ==
    /\ pc = "enrich"
    /\ AllClassifiedKnown
    /\ Len(classified_yes) = 2
    /\ Len(selected_consumer) = 2
    /\ selected_consumer[1].persona_id # selected_consumer[2].persona_id

PipelineOrder ==
    <<"generate_relevant_personas", "generate_product_personas", "find_top_personas",
      "analyze_purchase_decisions", "classify_yes_personas">>

\* C11: the collaborators invoked so far are always a prefix of the pipeline
\* order, each of the first five at most once, followed by insight calls only
\* once all five have been called; and when a collaborator has failed the
\* request is over and the failed call is the last one made.
C11_SinglePassOrdered ==
    /\ \E k \in 0..Len(PipelineOrder) :
          /\ k <= Len(calls)
          /\ SubSeq(calls, 1, k) = SubSeq(PipelineOrder, 1, k)
          /\ \A j \in (k + 1)..Len(calls) :
                calls[j] = "generate_persona_insights" /\ k = Len(PipelineOrder)
    /\ failed # "" =>
          /\ Done
          /\ calls # <<>>
          /\ calls[Len(calls)] = failed
          /\ \A j \in 1..(Len(calls) - 1) : calls[j] # failed \/ failed = "generate_persona_insights"

C11_Witness ==
    /\ Done
    /\ failed = "generate_persona_insights"
    /\ Len(calls) = Len(PipelineOrder) + 2

UnisolatedStages ==
    {"generate_relevant_personas", "generate_product_personas", "generate_persona_insights"}

\* C12: a failure of generate_relevant_personas, generate_product_personas or
\* generate_persona_insights, and an exception raised by the aggregation
\* itself, end the request with the generic internal error: status 500, the
\* text "Internal server error: " followed by the cause alone, and the text of
\* none of the three isolated stages.
C12_GenericInternalError ==
    (/\ Done
     /\ \/ failed \in UnisolatedStages
        \/ failed = "" /\ "classify_yes_personas" \in Range(calls)
                       /\ response.kind = "error") =>
        /\ response.kind = "error"
        /\ response.status_code = 500
        /\ Len(response.detail) = 2
        /\ response.detail[1] = "Internal server error: "
        /\ \A st \in IsolatedStages : StageText[st] \notin Range(response.detail)

C12_Witness ==
    /\ Done
    /\ failed = "generate_product_personas"
    /\ response.kind = "error"
    /\ calls = SubSeq(PipelineOrder, 1, 2)

\* the insight calls due for the first n representatives, in order
InsightCallsDue(n) ==
    LET kept == SelectSeq(SubSeq(selected_consumer, 1, n),
                          LAMBDA c : c.persona_summary # "")
    IN  [i \in 1..Len(kept) |->
            [product_description |-> product_description,
             product_persona_name |-> kept[i].persona_type,
             persona_summary |-> kept[i].persona_summary]]

\* C13: generate_persona_insights is invoked once for each representative with
\* a non-empty summary, with the description, that archetype and that summary,
\* and never for one with an empty summary; on success consumer_insights has
\* exactly the archetypes of those representatives, each with the
\* representative's persona_id; an empty summary ends no request in error.
C13_InsightPerRepresentative ==
    /\ pc = "enrich" => insight_args = InsightCallsDue(enrich_i - 1)
    /\ (Done /\ failed = "generate_persona_insights") =>
          insight_args = InsightCallsDue(enrich_i)
    /\ \A i, j \in 1..Len(insight_args) :
          insight_args[i].product_persona_name = insight_args[j].product_persona_name => i = j
    /\ Succeeded =>
          LET insights == response.result.consumer_insights IN
          /\ insight_args = InsightCallsDue(Len(selected_consumer))
          /\ DOMAIN insights =
                {insight_args[i].product_persona_name : i \in 1..Len(insight_args)}
          /\ \A k \in 1..Len(selected_consumer) :
                IF selected_consumer[k].persona_summary = ""
                THEN selected_consumer[k].persona_type \notin DOMAIN insights
                ELSE insights[selected_consumer[k].persona_type].persona_id =
                        selected_consumer[k].persona_id
    /\ (Done /\ failed = "" /\ selected_consumer # <<>>) => response.kind = "result"

C13_Witness ==
    /\ Succeeded
    /\ Len(selected_consumer) = 2
    /\ selected_consumer[1].persona_summary = ""
    /\ selected_consumer[2].persona_summary # ""
    /\ Len(insight_args) = 1

\* the archetypes of the classifications, the ids classified into one in
\* order, and the id random.choice selected for it in this request
ClassifiedTypes == {ArchetypeOf(classified_yes[i]) : i \in 1..Len(classified_yes)}
FirstIndex(t) ==
    CHOOSE i \in 1..Len(classified_yes) :
        /\ ArchetypeOf(classified_yes[i]) = t
        /\ \A j \in 1..(i - 1) : ArchetypeOf(classified_yes[j]) # t
GroupNumber(t) ==
    Cardinality({FirstIndex(u) : u \in {v \in ClassifiedTypes : FirstIndex(v) <= FirstIndex(t)}})
IdsOf(t) ==
    LET of == SelectSeq(classified_yes, LAMBDA c : ArchetypeOf(c) = t)
    IN  [i \in 1..Len(of) |-> PersonaIdOf(of[i])]
SelectedId(t) == IdsOf(t)[random_state[GroupNumber(t)]]
KnownId(id) ==
    \E j \in 1..Len(analysis_results.details) :
        /\ "persona_id" \in DOMAIN analysis_results.details[j]
        /\ analysis_results.details[j].persona_id = id
Sampled ==
    /\ pc \in {"enrich", "done"}
    /\ classified_yes # <<>>
    /\ Len(random_state) = Cardinality(ClassifiedTypes)
EntriesOf(t) == {k \in 1..Len(selected_consumer) : selected_consumer[k].persona_type = t}

\* C14: an archetype whose selected persona_id matches no decision record has
\* no representative, no insight call and no consumer_insights entry; every
\* other archetype has its one representative with the selected id; and the
\* request does not fail for it.
C14_UnknownIdSkipped ==
    Sampled =>
        /\ \A t \in ClassifiedTypes :
              IF KnownId(SelectedId(t))
              THEN /\ Cardinality(EntriesOf(t)) = 1
                   /\ \A k \in EntriesOf(t) : selected_consumer[k].persona_id = SelectedId(t)
              ELSE /\ EntriesOf(t) = {}
                   /\ t \notin DOMAIN consumer_insights
                   /\ \A i \in 1..Len(insight_args) : insight_args[i].product_persona_name # t
        /\ (Done /\ failed = "") =>
              /\ response.kind = "result"
              /\ \A t \in ClassifiedTypes :
                    ~KnownId(SelectedId(t)) => t \notin DOMAIN response.result.consumer_insights

C14_Witness ==
    /\ Sampled
    /\ Succeeded
    /\ \E t \in ClassifiedTypes : ~KnownId(SelectedId(t)) /\ SelectedId(t) # ""
    /\ \E t \in ClassifiedTypes : t \in DOMAIN response.result.consumer_insights

\* C15: in a successful response the persona_id of every consumer_insights
\* entry is the id of a decision record whose decision is "yes".
C15_RepresentativeSaidYes ==
    Succeeded =>
        \A k \in DOMAIN response.result.consumer_insights :
            \E j \in 1..Len(analysis_results.details) :
                /\ "persona_id" \in DOMAIN analysis_results.details[j]
                /\ analysis_results.details[j].persona_id =
                      response.result.consumer_insights[k].persona_id
                /\ analysis_results.details[j].decision = StrVal(yes)

\* the draws of the request being served, and both requests answered
OwnDraws ==
    IF previous = NoPrevious THEN random_state
    ELSE SubSeq(random_state, Len(previous.draws) + 1, Len(random_state))
BothAnswered == Succeeded /\ previous # NoPrevious

SameDistributions ==
    BothAnswered =>
        LET a == previous.response.result
            b == response.result
        IN  /\ a.would_buy_pie = b.would_buy_pie
            /\ a.yes_pie = b.yes_pie
            /\ a.age_distribution = b.age_distribution
            /\ a.demographics = b.demographics
            /\ OwnDraws = previous.draws => a.consumer_insights = b.consumer_insights

AggregationKeepsInputs ==
    pc = "aggregate" =>
        /\ analysis_results' = analysis_results
        /\ classified_yes' = classified_yes
        /\ product_persona' = product_persona

C17_OutcomeOfOwnInputsOnly ==
    BothAnswered =>
        LET a == previous.response.result
            b == response.result
        IN  /\ a.would_buy_pie = b.would_buy_pie
            /\ a.yes_pie = b.yes_pie
            /\ a.age_distribution = b.age_distribution
            /\ a.demographics = b.demographics
            /\ DOMAIN a.consumer_insights = DOMAIN b.consumer_insights

\* C18: once the tally is made, the records handed to classify_yes_personas
\* are as many as would_buy_pie.yes counts, and they are the records whose
\* lowercased decision is "yes".
C18_YesPartitionMatchesTally ==
    would_buy_pie_counts # EmptyDict =>
        /\ Len(yes_personas) = would_buy_pie_counts.yes
        /\ yes_personas =
              SelectSeq(analysis_results.details,
                        LAMBDA p : Lower(p.decision.str) = yes)

\* C19 as first stated: in a successful response every key of
\* consumer_insights is a key of yes_pie with a count of at least 1.
C19_InsightKeysCountedInYesPie ==
    Succeeded =>
        \A k \in DOMAIN response.result.consumer_insights :
            /\ k \in DOMAIN response.result.yes_pie
            /\ response.result.yes_pie[k] >= 1

\* C19, amended: in a successful response every key of consumer_insights that
\* is one of the archetype labels of the product-persona generator is a key of
\* yes_pie with a count of at least 1, and a key that is none of these labels
\* is not a key of yes_pie.
C19_DeclaredInsightKeysCounted ==
    Succeeded =>
        \A k \in DOMAIN response.result.consumer_insights :
            IF k \in Range(product_persona)
            THEN k \in DOMAIN response.result.yes_pie /\ response.result.yes_pie[k] >= 1
            ELSE k \notin DOMAIN response.result.yes_pie

C19_Witness ==
    /\ Succeeded
    /\ product_persona = <<"A">>
    /\ DOMAIN response.result.consumer_insights = {"A", "B"}
    /\ response.result.yes_pie["A"] = 1

====
